---- MODULE Spec2Model ----
(***************************************************************************)
(* A model of the superk_mono equipment wrappers: the SuperK laser         *)
(* register wrapper (superk_laser.py), the HRS monochromator wrapper       *)
(* (hrs_monochromator.py) and the FW212CNEB filter wheel wrapper           *)
(* (thorlabs_nd_filter_wheel.py).  Every public method is one action; the  *)
(* device behind self.connection is the environment: it holds the          *)
(* registers and answers each command, and the commands a call issues are  *)
(* recorded in trace.                                                      *)
(***************************************************************************)
EXTENDS Integers, Sequences, FiniteSets, TLC

VARIABLES
    superk,       \* "absent" until SuperK.__init__ returns, then "ok", and
                  \* "disconnected" once disconnect has released the transport
    MODULE_TYPE,  \* SuperK.MODULE_TYPE (0 while no wrapper exists)
    reg,          \* the laser's numeric registers, by register name
    USER_TEXT,    \* the laser's USER_TEXT register (a string, as a sequence)
    mono,         \* the monochromator (device): [filter, grating,
                  \* front_entrance_slit, front_exit_slit]
    fw212,        \* the FW212CNEB wrapper: [built, max_position, od_map]
    wheel,        \* the filter wheel (device): [count, position]
    hrs,          \* the HRSMonochromator wrapper: the keys of
                  \* [filter_info, grating_info]
    service,      \* the process that runs start_service
    call,         \* the last call: [op, arg, status, error, ret]
    trace         \* the device commands the last call issued, in order

vars == <<superk, MODULE_TYPE, reg, USER_TEXT, mono, fw212, wheel, hrs, service, call, trace>>

positionVars == <<mono, fw212, wheel>>
laserVars == <<superk, MODULE_TYPE, reg, USER_TEXT>>

(***************************************************************************)
(* Program constants.                                                      *)
(***************************************************************************)
MODULE_TYPE_0x60 == 96
MODULE_TYPE_0x88 == 136

CONSTANT_CURRENT == 0
CONSTANT_POWER == 1
MODULATED_CURRENT == 2
MODULATED_POWER == 3
POWER_LOCK == 4

OperatingModes ==
    [CONSTANT_CURRENT |-> CONSTANT_CURRENT, CONSTANT_POWER |-> CONSTANT_POWER,
     MODULATED_CURRENT |-> MODULATED_CURRENT, MODULATED_POWER |-> MODULATED_POWER,
     POWER_LOCK |-> POWER_LOCK]

ModeValues == {OperatingModes[n] : n \in DOMAIN OperatingModes}

RegNames == {"EMISSION", "MODE", "INTERLOCK", "CURRENT_LEVEL", "POWER_LEVEL", "PANEL_LOCK"}

(***************************************************************************)
(* Python's float: IEEE-754 binary64 with round-to-nearest-even.  The      *)
(* integers of TLC are 32 bits wide, so a significand is a natural number  *)
(* kept as a little-endian sequence of limbs (no leading zero limb; <<>>   *)
(* is 0), and a float is [neg, m, e] of value (-1)^neg * m * 2^e with m of *)
(* exactly MantissaBits bits, or m = <<>> for 0.  The levels are within    *)
(* [-2^31, 2^31] and no result is subnormal or infinite.                   *)
(***************************************************************************)
MantissaBits == 53

LimbBase == 2 ^ 13

RECURSIVE NatOf(_)
NatOf(n) == IF n = 0 THEN <<>> ELSE <<n % LimbBase>> \o NatOf(n \div LimbBase)

RECURSIVE IntOf(_)
IntOf(s) == IF s = <<>> THEN 0 ELSE Head(s) + LimbBase * IntOf(Tail(s))

RECURSIVE Trim(_)
Trim(s) ==
    IF s # <<>> /\ s[Len(s)] = 0 THEN Trim(SubSeq(s, 1, Len(s) - 1)) ELSE s

RECURSIVE AddNat(_, _, _)
AddNat(a, b, carry) ==
    IF a = <<>> /\ b = <<>>
    THEN NatOf(carry)
    ELSE LET x == IF a = <<>> THEN 0 ELSE Head(a)
             y == IF b = <<>> THEN 0 ELSE Head(b)
             t == x + y + carry
         IN  <<t % LimbBase>>
             \o AddNat(IF a = <<>> THEN <<>> ELSE Tail(a),
                       IF b = <<>> THEN <<>> ELSE Tail(b), t \div LimbBase)

RECURSIVE MulSmall(_, _, _)
MulSmall(s, c, carry) ==
    IF s = <<>>
    THEN NatOf(carry)
    ELSE LET t == Head(s) * c + carry
         IN  <<t % LimbBase>> \o MulSmall(Tail(s), c, t \div LimbBase)

RECURSIVE MulNat(_, _)
MulNat(a, b) ==
    IF b = <<>>
    THEN <<>>
    ELSE Trim(AddNat(MulSmall(a, Head(b), 0), <<0>> \o MulNat(a, Tail(b)), 0))

(* s divided by the small number d: the quotient and the remainder. *)
RECURSIVE DivSmall(_, _)
DivSmall(s, d) ==
    IF s = <<>>
    THEN [q |-> <<>>, r |-> 0]
    ELSE LET hi == DivSmall(Tail(s), d)
             t == hi.r * LimbBase + Head(s)
         IN  [q |-> Trim(<<t \div d>> \o hi.q), r |-> t % d]

RECURSIVE BitLenSmall(_)
BitLenSmall(n) == IF n = 0 THEN 0 ELSE 1 + BitLenSmall(n \div 2)

LimbBits == BitLenSmall(LimbBase - 1)

BitLen(s) ==
    IF s = <<>> THEN 0 ELSE LimbBits * (Len(s) - 1) + BitLenSmall(s[Len(s)])

ShiftLeft(s, n) ==
    IF s = <<>>
    THEN <<>>
    ELSE [i \in 1 .. (n \div LimbBits) |-> 0] \o Trim(MulSmall(s, 2 ^ (n % LimbBits), 0))

(* s shifted right by n bits; sticky: a 1 bit was shifted out (or came in). *)
ShiftRight(s, n, sticky) ==
    LET k == n \div LimbBits
        low == SubSeq(s, 1, IF k < Len(s) THEN k ELSE Len(s))
        h == DivSmall(SubSeq(s, k + 1, Len(s)), 2 ^ (n % LimbBits))
    IN  [q |-> h.q,
         sticky |-> sticky \/ h.r # 0 \/ \E i \in DOMAIN low : low[i] # 0]

RECURSIVE NatLess(_, _)
NatLess(a, b) ==
    IF Len(a) # Len(b)
    THEN Len(a) < Len(b)
    ELSE IF a = <<>>
    THEN FALSE
    ELSE IF a[Len(a)] # b[Len(b)]
    THEN a[Len(a)] < b[Len(b)]
    ELSE NatLess(SubSeq(a, 1, Len(a) - 1), SubSeq(b, 1, Len(b) - 1))

Float(neg, m, e) == [neg |-> neg, m |-> m, e |-> e]

FloatZero == Float(FALSE, <<>>, 0)

(* The float nearest to (-1)^neg * (n + f) * 2^e, ties to even, where       *)
(* 0 <= f < 1 and sticky says that f > 0.                                   *)
RoundNearestEven(neg, n, e, sticky) ==
    LET len == BitLen(n)
    IN  IF len = 0
        THEN FloatZero
        ELSE IF len <= MantissaBits
        THEN Float(neg, ShiftLeft(n, MantissaBits - len), e - (MantissaBits - len))
        ELSE LET sh == len - MantissaBits
                 g == ShiftRight(n, sh - 1, sticky)
                 half == Head(g.q) % 2 = 1
                 q == DivSmall(g.q, 2).q
                 up == half /\ (g.sticky \/ Head(q) % 2 = 1)
                 m == IF up THEN AddNat(q, <<>>, 1) ELSE q
             IN  IF BitLen(m) > MantissaBits
                 THEN Float(neg, DivSmall(m, 2).q, e + sh + 1)
                 ELSE Float(neg, m, e + sh)

(* float(n) of an int n, and the float n / d of two ints (d > 0). *)
FloatOfInt(n) == RoundNearestEven(n < 0, NatOf(IF n < 0 THEN -n ELSE n), 0, FALSE)

FloatOfRatio(n, d) ==
    LET dv == DivSmall(ShiftLeft(NatOf(IF n < 0 THEN -n ELSE n), 2 * MantissaBits), d)
    IN  RoundNearestEven(n < 0, dv.q, -(2 * MantissaBits), dv.r # 0)

(* a * b *)
FloatMul(a, b) ==
    IF a.m = <<>> \/ b.m = <<>>
    THEN FloatZero
    ELSE RoundNearestEven(a.neg # b.neg, MulNat(a.m, b.m), a.e + b.e, FALSE)

(* a < b *)
FloatLess(a, b) ==
    LET magLess(x, y) ==
            IF y.m = <<>> THEN FALSE
            ELSE IF x.m = <<>> THEN TRUE
            ELSE x.e < y.e \/ (x.e = y.e /\ NatLess(x.m, y.m))
    IN  IF a.neg /\ ~b.neg THEN TRUE
        ELSE IF ~a.neg /\ b.neg THEN FALSE
        ELSE IF a.neg THEN magLess(b, a)
        ELSE magLess(a, b)

(* int(a): truncation towards zero *)
FloatToInt(a) ==
    LET mag == IF a.m = <<>> THEN 0
               ELSE IF a.e >= 0 THEN IntOf(ShiftLeft(a.m, a.e))
               ELSE IntOf(ShiftRight(a.m, -a.e, FALSE).q)
    IN  IF a.neg THEN -mag ELSE mag

(***************************************************************************)
(* The device commands of a call: val is the value written (the value     *)
(* read, for a read), resp the value the command returned, and ok = FALSE  *)
(* says that the command raised OSError.                                   *)
(***************************************************************************)
Cmd(c, r, v, resp, ok) == [cmd |-> c, reg |-> r, val |-> v, resp |-> resp, ok |-> ok]

Outcome(r, t, status, error, ret) ==
    [reg |-> r, trace |-> t, status |-> status, error |-> error, ret |-> ret]

(***************************************************************************)
(* BaseEquipment.convert_to_enum(mode, OperatingModes, to_upper=True), of  *)
(* msl.equipment.utils: the member of that value, else the member whose    *)
(* name is str(mode) with every ' ' replaced by '_' and then upper-cased;  *)
(* -1 stands for the ValueError of an object that is neither.  A string    *)
(* is a sequence of characters.                                            *)
(***************************************************************************)
LowerCase ==
    <<"a", "b", "c", "d", "e", "f", "g", "h", "i", "j", "k", "l", "m", "n",
      "o", "p", "q", "r", "s", "t", "u", "v", "w", "x", "y", "z">>

UpperCase ==
    <<"A", "B", "C", "D", "E", "F", "G", "H", "I", "J", "K", "L", "M", "N",
      "O", "P", "Q", "R", "S", "T", "U", "V", "W", "X", "Y", "Z">>

UpperTable ==
    [c \in {LowerCase[i] : i \in DOMAIN LowerCase} |->
        UpperCase[CHOOSE i \in DOMAIN LowerCase : LowerCase[i] = c]]

UpperChar(c) == IF c \in DOMAIN UpperTable THEN UpperTable[c] ELSE c

(* name.replace(' ', '_').upper() *)
ToUpperName(s) == [i \in DOMAIN s |-> UpperChar(IF s[i] = " " THEN "_" ELSE s[i])]

(* The names of the members of OperatingModes, by value + 1. *)
MemberNames ==
    <<<<"C", "O", "N", "S", "T", "A", "N", "T", "_", "C", "U", "R", "R", "E", "N", "T">>,
      <<"C", "O", "N", "S", "T", "A", "N", "T", "_", "P", "O", "W", "E", "R">>,
      <<"M", "O", "D", "U", "L", "A", "T", "E", "D", "_", "C", "U", "R", "R", "E", "N", "T">>,
      <<"M", "O", "D", "U", "L", "A", "T", "E", "D", "_", "P", "O", "W", "E", "R">>,
      <<"P", "O", "W", "E", "R", "_", "L", "O", "C", "K">>>>

convert_to_enum(obj) ==
    IF obj.kind = "int"
    THEN IF obj.int \in ModeValues THEN obj.int ELSE -1
    ELSE LET name == ToUpperName(obj.str)
             members == {v \in ModeValues : MemberNames[v + 1] = name}
         IN  IF members = {} THEN -1 ELSE CHOOSE v \in members : TRUE

IntMode(n) == [kind |-> "int", int |-> n, str |-> <<>>]
StrMode(s) == [kind |-> "str", int |-> 0, str |-> s]

ModeInputs ==
    {IntMode(n) : n \in (CONSTANT_CURRENT - 1) .. (POWER_LOCK + 1)}
    \cup {StrMode(s) : s \in {<<"c", "o", "n", "s", "t", "a", "n", "t", "_", "c", "u", "r", "r", "e", "n", "t">>,
                              <<"p", "o", "w", "e", "r", " ", "l", "o", "c", "k">>,
                              <<"M", "o", "d", "u", "l", "a", "t", "e", "d", " ", "P", "o", "w", "e", "r">>,
                              <<"p", "u", "l", "s", "e", "d">>}}

(***************************************************************************)
(* A variant of ensure_interlock_ok that takes the reset for granted: it   *)
(* returns True after the write without looking at the status read back.   *)
(***************************************************************************)
ensure_interlock_ok_unchecked(r, after) ==
    LET status == r["INTERLOCK"]
        rd == Cmd("read", "INTERLOCK", status, status, TRUE)
    IN  IF status = 2
        THEN Outcome(r, <<rd>>, "ok", "none", TRUE)
        ELSE IF status = 1
        THEN Outcome([r EXCEPT !["INTERLOCK"] = after],
                     <<rd, Cmd("write_read", "INTERLOCK", 1, after, TRUE)>>,
                     "ok", "none", TRUE)
        ELSE Outcome(r, <<rd>>, "error", "interlock", status)

(* A variant of ensure_interlock_ok that resets the interlock on every call, *)
(* whatever the status read.                                               *)
ensure_interlock_ok_always_reset(r, after) ==
    LET status == r["INTERLOCK"]
        rd == Cmd("read", "INTERLOCK", status, status, TRUE)
        r2 == [r EXCEPT !["INTERLOCK"] = after]
        wr == Cmd("write_read", "INTERLOCK", 1, after, TRUE)
    IN  IF status \in {1, 2}
        THEN IF after = 2
             THEN Outcome(r2, <<rd, wr>>, "ok", "none", TRUE)
             ELSE Outcome(r2, <<rd, wr>>, "error", "interlock", after)
        ELSE Outcome(r, <<rd>>, "error", "interlock", status)

(***************************************************************************)
(* SuperK.ensure_interlock_ok.  after: the status the device reports once  *)
(* the reset (a write of 1) has been made.                                 *)
(***************************************************************************)
ensure_interlock_ok_run(r, after) ==
    LET status == r["INTERLOCK"]
        rd == Cmd("read", "INTERLOCK", status, status, TRUE)
    IN  IF status = 2
        THEN Outcome(r, <<rd>>, "ok", "none", TRUE)
        ELSE IF status = 1
        THEN LET r2 == [r EXCEPT !["INTERLOCK"] = after]
                 wr == Cmd("write_read", "INTERLOCK", 1, after, TRUE)
             IN  IF after = 2
                 THEN Outcome(r2, <<rd, wr>>, "ok", "none", TRUE)
                 ELSE Outcome(r2, <<rd, wr>>, "error", "interlock", after)
        ELSE Outcome(r, <<rd>>, "error", "interlock", status)

(* A variant of emission that returns although the EMISSION write raised. *)
emission_swallowing(r, on, fault) ==
    LET state == IF on THEN 3 ELSE 0
    IN  IF fault
        THEN Outcome(r, <<Cmd("write", "EMISSION", state, state, FALSE)>>,
                     "ok", "none", "None")
        ELSE Outcome([r EXCEPT !["EMISSION"] = state],
                     <<Cmd("write", "EMISSION", state, state, TRUE)>>, "ok", "none", "None")

(***************************************************************************)
(* SuperK.emission(on).  fault: the EMISSION write raises OSError.         *)
(***************************************************************************)
emission_run(r, on, fault) ==
    LET state == IF on THEN 3 ELSE 0
    IN  IF fault
        THEN Outcome(r, <<Cmd("write", "EMISSION", state, state, FALSE)>>,
                     "error", "cannot_turn_emission", "None")
        ELSE Outcome([r EXCEPT !["EMISSION"] = state],
                     <<Cmd("write", "EMISSION", state, state, TRUE)>>, "ok", "none", "None")

(* A variant of lock_front_panel that writes PANEL_LOCK whatever the module *)
(* type is.                                                                *)
lock_front_panel_any_type(mt, r, on, fault) ==
    LET v == IF on THEN 1 ELSE 0
    IN  IF fault
        THEN Outcome(r, <<Cmd("write", "PANEL_LOCK", v, v, FALSE)>>, "ok", "none", FALSE)
        ELSE Outcome([r EXCEPT !["PANEL_LOCK"] = v],
                     <<Cmd("write", "PANEL_LOCK", v, v, TRUE)>>, "ok", "none", TRUE)

(***************************************************************************)
(* SuperK.lock_front_panel(on).  fault: the PANEL_LOCK write raises        *)
(* OSError, which the method catches.                                      *)
(***************************************************************************)
lock_front_panel_run(mt, r, on, fault) ==
    LET v == IF on THEN 1 ELSE 0
    IN  IF mt = MODULE_TYPE_0x88
        THEN Outcome(r, <<>>, "ok", "none", FALSE)
        ELSE IF fault
        THEN Outcome(r, <<Cmd("write", "PANEL_LOCK", v, v, FALSE)>>, "ok", "none", FALSE)
        ELSE Outcome([r EXCEPT !["PANEL_LOCK"] = v],
                     <<Cmd("write", "PANEL_LOCK", v, v, TRUE)>>, "ok", "none", TRUE)

(***************************************************************************)
(* The level setters.  A percentage is given in tenths: the argument k     *)
(* stands for the float k / 10.  write_read_u16 stores the value written   *)
(* and answers what the register then holds.                               *)
(***************************************************************************)
MaxPercent == 100
Scale == 10

MaxLow == 7
MaxOver == 2

LevelTenths ==
    (-MaxOver .. MaxLow)
    \cup ((MaxPercent * Scale - MaxLow) .. (MaxPercent * Scale + MaxOver))

Percentage == [k \in LevelTenths |-> FloatOfRatio(k, Scale)]

(* percentage < 0, percentage > 100, int(percentage * 10) and             *)
(* float(val) * 0.1, each tabulated once over its arguments.              *)
BelowRange == [k \in LevelTenths |-> FloatLess(Percentage[k], FloatOfInt(0))]

AboveRange == [k \in LevelTenths |-> FloatLess(FloatOfInt(MaxPercent), Percentage[k])]

RegisterValue ==
    [k \in LevelTenths |-> FloatToInt(FloatMul(Percentage[k], FloatOfInt(Scale)))]

ScaledLevel ==
    [v \in 0 .. (MaxPercent * Scale + MaxOver) |->
        FloatMul(FloatOfInt(v), FloatOfRatio(1, 10))]

(* A variant of the level write that checks only the upper limit (the     *)
(* register is 16 bits wide).                                             *)
write_level_unchecked_below(r, name, error, k, fault) ==
    LET v == RegisterValue[k] % (2 ^ 16)
    IN  IF AboveRange[k]
        THEN Outcome(r, <<>>, "error", error, "None")
        ELSE Outcome([r EXCEPT ![name] = v], <<Cmd("write_read", name, v, v, TRUE)>>,
                     "ok", "none", "None")

(* The range check, the write-read of int(percentage * 10) and the answer  *)
(* float(val) * 0.1 that set_power_level and _set_current_level share.     *)
write_level(r, name, error, k, fault) ==
    LET v == RegisterValue[k]
    IN  IF BelowRange[k] \/ AboveRange[k]
        THEN Outcome(r, <<>>, "error", error, "None")
        ELSE IF fault
        THEN Outcome(r, <<Cmd("write_read", name, v, v, FALSE)>>, "error", "OSError", "None")
        ELSE Outcome([r EXCEPT ![name] = v], <<Cmd("write_read", name, v, v, TRUE)>>,
                     "ok", "none", ScaledLevel[v])

set_current_level_run(r, k, fault) ==
    write_level(r, "CURRENT_LEVEL", "invalid_current_level", k, fault)

set_power_level_run(mt, r, k, fault) ==
    IF mt = MODULE_TYPE_0x88
    THEN Outcome(r, <<>>, "error", "power_levels_unsupported", "None")
    ELSE write_level(r, "POWER_LEVEL", "invalid_power_level", k, fault)

(***************************************************************************)
(* The USER_TEXT register, as the docstring of set_user_text and           *)
(* test_user_text describe it: it keeps at most 20 (module type 0x60) or   *)
(* 240 (module type 0x88) characters of the text written, and module type  *)
(* 0x88 takes no empty text.                                               *)
(***************************************************************************)
UserTextLimit60 == 20
UserTextLimit88 == 240

UserTextLimit(mt) == IF mt = MODULE_TYPE_0x60 THEN UserTextLimit60 ELSE UserTextLimit88

StoredText(mt, text) ==
    IF Len(text) > UserTextLimit(mt) THEN SubSeq(text, 1, UserTextLimit(mt)) ELSE text

TextOutcome(text, t, status, error, ret) ==
    [text |-> text, trace |-> t, status |-> status, error |-> error, ret |-> ret]

write_read_ascii(mt, old, text, fault) ==
    IF fault \/ (mt = MODULE_TYPE_0x88 /\ text = <<>>)
    THEN TextOutcome(old, <<Cmd("write_read", "USER_TEXT", text, text, FALSE)>>,
                     "error", "OSError", "None")
    ELSE TextOutcome(StoredText(mt, text),
                     <<Cmd("write_read", "USER_TEXT", text, StoredText(mt, text), TRUE)>>,
                     "ok", "none", StoredText(mt, text))

(* A variant of set_user_text that writes the text as it was given. *)
set_user_text_as_given(mt, old, text, fault) == write_read_ascii(mt, old, text, fault)

(***************************************************************************)
(* SuperK.set_user_text(text).                                             *)
(***************************************************************************)
set_user_text_run(mt, old, text, fault) ==
    write_read_ascii(mt, old,
                     IF text = <<>> /\ mt = MODULE_TYPE_0x88 THEN <<" ">> ELSE text, fault)

(***************************************************************************)
(* SuperK.disconnect(): lock_front_panel(False), set_user_text(''),        *)
(* connection.close_ports(address) and connection.disconnect(), in this    *)
(* order and with nothing caught: a call that raises ends the method.      *)
(* fault: 1 = the PANEL_LOCK write raises OSError (lock_front_panel        *)
(* catches it), 2 = the USER_TEXT write-read raises, 3 = close_ports       *)
(* raises, 0 = nothing does.  released: the transport was released.        *)
(***************************************************************************)
DisconnectOutcome(r, text, t, status, error, released) ==
    [reg |-> r, text |-> text, trace |-> t, status |-> status, error |-> error,
     ret |-> "None", released |-> released]

disconnect_run(mt, r, text, fault) ==
    LET lk == lock_front_panel_run(mt, r, FALSE, fault = 1)
        tx == set_user_text_run(mt, text, <<>>, fault = 2)
        t1 == lk.trace \o tx.trace
    IN  IF tx.status = "error"
        THEN DisconnectOutcome(lk.reg, tx.text, t1, "error", tx.error, FALSE)
        ELSE IF fault = 3
        THEN DisconnectOutcome(lk.reg, tx.text,
                               t1 \o <<Cmd("close_ports", "port", 0, 0, FALSE)>>,
                               "error", "OSError", FALSE)
        ELSE DisconnectOutcome(lk.reg, tx.text,
                               t1 \o <<Cmd("close_ports", "port", 0, 0, TRUE),
                                       Cmd("disconnect", "port", 0, 0, TRUE)>>,
                               "ok", "none", TRUE)

(***************************************************************************)
(* Variants of set_operating_mode: one that writes MODE although the       *)
(* emission-off write failed, one that leaves the emission as it is, and   *)
(* one that does not compare the write-read answer with the request.       *)
(***************************************************************************)
set_operating_mode_ignoring_fault(r, mode, fault, devMode) ==
    LET m == convert_to_enum(mode)
        off == emission_run(r, FALSE, fault = 1)
        r2 == [off.reg EXCEPT !["MODE"] = devMode]
        t2 == off.trace \o <<Cmd("write_read", "MODE", m, devMode, TRUE)>>
    IN  IF m = -1
        THEN Outcome(r, <<>>, "error", "ValueError", "None")
        ELSE IF devMode # m
        THEN Outcome(r2, t2, "error", "cannot_set_mode", "None")
        ELSE Outcome(r2, t2, "ok", "none", "None")

set_operating_mode_keeping_emission(r, mode, fault, devMode) ==
    LET m == convert_to_enum(mode)
        r2 == [r EXCEPT !["MODE"] = devMode]
        t2 == <<Cmd("write_read", "MODE", m, devMode, TRUE)>>
    IN  IF m = -1
        THEN Outcome(r, <<>>, "error", "ValueError", "None")
        ELSE IF devMode # m
        THEN Outcome(r2, t2, "error", "cannot_set_mode", "None")
        ELSE Outcome(r2, t2, "ok", "none", "None")

set_operating_mode_unverified(r, mode, fault, devMode) ==
    LET m == convert_to_enum(mode)
        off == emission_run(r, FALSE, fault = 1)
    IN  IF m = -1
        THEN Outcome(r, <<>>, "error", "ValueError", "None")
        ELSE IF off.status = "error"
        THEN off
        ELSE Outcome([off.reg EXCEPT !["MODE"] = devMode],
                     off.trace \o <<Cmd("write_read", "MODE", m, devMode, TRUE)>>,
                     "ok", "none", "None")

(* A variant of set_operating_mode that puts the emission back as it was    *)
(* when the device did not take the mode.                                  *)
set_operating_mode_restoring(r, mode, fault, devMode) ==
    LET m == convert_to_enum(mode)
        off == emission_run(r, FALSE, fault = 1)
    IN  IF m = -1
        THEN Outcome(r, <<>>, "error", "ValueError", "None")
        ELSE IF off.status = "error"
        THEN off
        ELSE IF fault = 2
        THEN Outcome(off.reg, off.trace \o <<Cmd("write_read", "MODE", m, m, FALSE)>>,
                     "error", "OSError", "None")
        ELSE LET r2 == [off.reg EXCEPT !["MODE"] = devMode]
                 t2 == off.trace \o <<Cmd("write_read", "MODE", m, devMode, TRUE)>>
             IN  IF devMode # m
                 THEN Outcome([r2 EXCEPT !["EMISSION"] = r["EMISSION"]],
                              t2 \o <<Cmd("write", "EMISSION", r["EMISSION"],
                                          r["EMISSION"], TRUE)>>,
                              "error", "cannot_set_mode", "None")
                 ELSE Outcome(r2, t2, "ok", "none", "None")

(* A variant of set_operating_mode that refuses, before any command, a     *)
(* mode that is not among the modes every module type lists.               *)
set_operating_mode_gated(r, mode, fault, devMode) ==
    LET m == convert_to_enum(mode)
        off == emission_run(r, FALSE, fault = 1)
    IN  IF m = -1
        THEN Outcome(r, <<>>, "error", "ValueError", "None")
        ELSE IF m \notin {CONSTANT_CURRENT, POWER_LOCK}
        THEN Outcome(r, <<>>, "error", "unsupported_mode", "None")
        ELSE IF off.status = "error"
        THEN off
        ELSE IF fault = 2
        THEN Outcome(off.reg, off.trace \o <<Cmd("write_read", "MODE", m, m, FALSE)>>,
                     "error", "OSError", "None")
        ELSE LET r2 == [off.reg EXCEPT !["MODE"] = devMode]
                 t2 == off.trace \o <<Cmd("write_read", "MODE", m, devMode, TRUE)>>
             IN  IF devMode # m
                 THEN Outcome(r2, t2, "error", "cannot_set_mode", "None")
                 ELSE Outcome(r2, t2, "ok", "none", "None")

(***************************************************************************)
(* SuperK.set_operating_mode(mode).  fault: 1 = the EMISSION write raises  *)
(* OSError, 2 = the MODE write does, 0 = neither.  devMode: the value the  *)
(* MODE register holds (and the write-read answers) after the write.       *)
(***************************************************************************)
set_operating_mode_run(r, mode, fault, devMode) ==
    LET m == convert_to_enum(mode)
        off == emission_run(r, FALSE, fault = 1)
    IN  IF m = -1
        THEN Outcome(r, <<>>, "error", "ValueError", "None")
        ELSE IF off.status = "error"
        THEN off
        ELSE IF fault = 2
        THEN Outcome(off.reg, off.trace \o <<Cmd("write_read", "MODE", m, m, FALSE)>>,
                     "error", "OSError", "None")
        ELSE LET r2 == [off.reg EXCEPT !["MODE"] = devMode]
                 t2 == off.trace \o <<Cmd("write_read", "MODE", m, devMode, TRUE)>>
             IN  IF devMode # m
                 THEN Outcome(r2, t2, "error", "cannot_set_mode", "None")
                 ELSE Outcome(r2, t2, "ok", "none", "None")

(***************************************************************************)
(* Positions.  A requested position is given in halves: the argument h     *)
(* stands for the number h / 2 (7 for 3.5), and int(position) truncates    *)
(* towards zero.  The val of a move command is the position sent, in       *)
(* halves as well.                                                         *)
(***************************************************************************)
IntOfHalves(h) == IF h >= 0 THEN h \div 2 ELSE -((-h) \div 2)

FILTER_MAX == 6
GRATING_MAX == 3

PosOutcome(m, w, t, status, error, ret) ==
    [mono |-> m, wheel |-> w, trace |-> t, status |-> status, error |-> error, ret |-> ret]

(* A variant of the monochromator's position setters that returns the      *)
(* position read back without comparing it with the one requested.         *)
set_mono_position_unasserted(m, w, info, field, limit, error, h, moved) ==
    LET pos == IntOfHalves(h)
        m2 == IF moved THEN [m EXCEPT ![field] = pos] ELSE m
        actual == m2[field]
        t == <<Cmd("move", field, 2 * pos, 2 * pos, TRUE),
               Cmd("read", field, actual, actual, TRUE)>>
    IN  IF ~(1 <= pos /\ pos <= limit)
        THEN PosOutcome(m, w, <<>>, "error", error, "None")
        ELSE IF pos \notin info
        THEN PosOutcome(m2, w, t, "error", "KeyError", "None")
        ELSE PosOutcome(m2, w, t, "ok", "none", actual)

(***************************************************************************)
(* HRSMonochromator.set_filter_position and set_grating_position: the      *)
(* range check on int(position), the move, the read-back, its assert, and  *)
(* the look-up of the position in the info map (info: its keys) for the    *)
(* log line, which raises KeyError for a position the map does not have.   *)
(* moved: the device went where it was sent (else it stays where it was).  *)
(***************************************************************************)
set_mono_position(m, w, info, field, limit, error, h, moved) ==
    LET pos == IntOfHalves(h)
        m2 == IF moved THEN [m EXCEPT ![field] = pos] ELSE m
        actual == m2[field]
        t == <<Cmd("move", field, 2 * pos, 2 * pos, TRUE),
               Cmd("read", field, actual, actual, TRUE)>>
    IN  IF ~(1 <= pos /\ pos <= limit)
        THEN PosOutcome(m, w, <<>>, "error", error, "None")
        ELSE IF actual # pos
        THEN PosOutcome(m2, w, t, "error", "AssertionError", "None")
        ELSE IF pos \notin info
        THEN PosOutcome(m2, w, t, "error", "KeyError", "None")
        ELSE PosOutcome(m2, w, t, "ok", "none", actual)

set_filter_position_run(hw, m, w, h, moved) ==
    set_mono_position(m, w, hw.filter_info, "filter", FILTER_MAX,
                      "invalid_filter_position", h, moved)

set_grating_position_run(hw, m, w, h, moved) ==
    set_mono_position(m, w, hw.grating_info, "grating", GRATING_MAX,
                      "invalid_grating_position", h, moved)

(***************************************************************************)
(* HRSMonochromator.__init__(record): the info maps are those of the       *)
(* record, or the defaults (the gratings 1, 2, 3 read from the device, the *)
(* six filters) when the record has none or an empty one.  gratings,       *)
(* filters: the keys of the record's maps.                                 *)
(***************************************************************************)
HRSMonochromator_init_run(gratings, filters) ==
    [filter_info |-> IF filters = {} THEN 1 .. 6 ELSE filters,
     grating_info |-> IF gratings = {} THEN {1, 2, 3} ELSE gratings]

(***************************************************************************)
(* HRSMonochromator.home_filter_wheel, home_front_entrance_slit and        *)
(* home_front_exit_slit: the home command and the value read back.  home:  *)
(* where the device goes when it is homed.                                 *)
(***************************************************************************)
home_run(m, w, field, home) ==
    LET m2 == [m EXCEPT ![field] = home]
    IN  PosOutcome(m2, w, <<Cmd("home", field, 0, 0, TRUE),
                            Cmd("read", field, home, home, TRUE)>>,
                   "ok", "none", home)

(***************************************************************************)
(* HRSMonochromator.set_front_entrance_slit_width and                      *)
(* set_front_exit_slit_width: width = int(um), the range check of          *)
(* _set_slit_width, the command, the read-back and its assert.  The width  *)
(* um is given in halves, like a position.                                 *)
(***************************************************************************)
SLIT_MIN == 10
SLIT_MAX == 3000

set_slit_width(m, w, field, h, moved) ==
    LET width == IntOfHalves(h)
        m2 == IF moved THEN [m EXCEPT ![field] = width] ELSE m
        actual == m2[field]
        t == <<Cmd("move", field, 2 * width, 2 * width, TRUE),
               Cmd("read", field, actual, actual, TRUE)>>
    IN  IF ~(SLIT_MIN <= width /\ width <= SLIT_MAX)
        THEN PosOutcome(m, w, <<>>, "error", "invalid_slit_width", "None")
        ELSE IF actual # width
        THEN PosOutcome(m2, w, t, "error", "AssertionError", "None")
        ELSE PosOutcome(m2, w, t, "ok", "none", actual)

set_front_entrance_slit_width_run(m, w, h, moved) ==
    set_slit_width(m, w, "front_entrance_slit", h, moved)

set_front_exit_slit_width_run(m, w, h, moved) ==
    set_slit_width(m, w, "front_exit_slit", h, moved)

(* A variant of FW212CNEB.set_position that counts positions from 0. *)
set_position_from_zero(fw, m, w, h, truncates) ==
    LET pos == IntOfHalves(h)
        w2 == [w EXCEPT !.position = pos]
    IN  IF ~(0 <= pos /\ pos <= fw.max_position)
        THEN PosOutcome(m, w, <<>>, "error", "invalid_position", "None")
        ELSE PosOutcome(m, w2, <<Cmd("move", "position", h, h, TRUE),
                                 Cmd("read", "position", pos, pos, TRUE)>>,
                        "ok", "none", pos)

(***************************************************************************)
(* FW212CNEB.set_position: the range check on int(position), the move to   *)
(* position (as it was given) and get_position().  A wheel sent a position *)
(* that is no whole number either goes to its integer part (truncates) or  *)
(* refuses the command.                                                    *)
(***************************************************************************)
set_position_run(fw, m, w, h, truncates) ==
    LET pos == IntOfHalves(h)
        w2 == [w EXCEPT !.position = pos]
    IN  IF ~(1 <= pos /\ pos <= fw.max_position)
        THEN PosOutcome(m, w, <<>>, "error", "invalid_position", "None")
        ELSE IF h % 2 # 0 /\ ~truncates
        THEN PosOutcome(m, w, <<Cmd("move", "position", h, h, FALSE)>>,
                        "error", "device_error", "None")
        ELSE PosOutcome(m, w2, <<Cmd("move", "position", h, h, TRUE),
                                 Cmd("read", "position", pos, pos, TRUE)>>,
                        "ok", "none", pos)

(***************************************************************************)
(* FW212CNEB.__init__(record).  filters: the keys of the map the record    *)
(* configures ({}: none, or an empty one); count: the number of positions  *)
(* the device reports.                                                     *)
(***************************************************************************)
DefaultFilters == 1 .. 12

(* A variant of FW212CNEB.__init__ that accepts a map with entries to spare. *)
FW212CNEB_init_at_least(count, filters) ==
    LET f == IF filters = {} THEN DefaultFilters ELSE filters
    IN  IF Cardinality(f) < count
        THEN [fw |-> [built |-> FALSE, max_position |-> 0, od_map |-> {}],
              status |-> "error", error |-> "filter_map_size"]
        ELSE [fw |-> [built |-> TRUE, max_position |-> count, od_map |-> f],
              status |-> "ok", error |-> "none"]

FW212CNEB_init_run(count, filters) ==
    LET f == IF filters = {} THEN DefaultFilters ELSE filters
    IN  IF Cardinality(f) # count
        THEN [fw |-> [built |-> FALSE, max_position |-> 0, od_map |-> {}],
              status |-> "error", error |-> "filter_map_size"]
        ELSE [fw |-> [built |-> TRUE, max_position |-> count, od_map |-> f],
              status |-> "ok", error |-> "none"]

(***************************************************************************)
(* The getters, as the value each returns in the current state;            *)
(* Raised(e) is the answer of a getter that raises e instead.              *)
(***************************************************************************)
Raised(e) == [raises |-> e]

get_operating_mode == reg["MODE"]
is_emission_on == reg["EMISSION"] # 0
get_current_level == ScaledLevel[reg["CURRENT_LEVEL"]]
get_feedback_level == get_current_level
get_power_level ==
    IF MODULE_TYPE = MODULE_TYPE_0x88
    THEN Raised("power_levels_unsupported")
    ELSE ScaledLevel[reg["POWER_LEVEL"]]
get_user_text == USER_TEXT
is_constant_current_mode == get_operating_mode = OperatingModes.CONSTANT_CURRENT
is_constant_power_mode == get_operating_mode = OperatingModes.CONSTANT_POWER
is_modulated_current_mode == get_operating_mode = OperatingModes.MODULATED_CURRENT
is_modulated_power_mode == get_operating_mode = OperatingModes.MODULATED_POWER
is_power_lock_mode == get_operating_mode = OperatingModes.POWER_LOCK

(***************************************************************************)
(* SuperK.MODES, as __init__ sets it for the module type, and              *)
(* get_operating_modes(), which returns it.                                *)
(***************************************************************************)
MODES(mt) ==
    IF mt = MODULE_TYPE_0x60
    THEN [n \in {"Constant current", "Current modulation", "Power lock"} |->
            CASE n = "Constant current" -> OperatingModes.CONSTANT_CURRENT
              [] n = "Current modulation" -> OperatingModes.MODULATED_CURRENT
              [] OTHER -> OperatingModes.POWER_LOCK]
    ELSE [n \in {"Constant current", "Power lock"} |->
            IF n = "Constant current" THEN OperatingModes.CONSTANT_CURRENT
            ELSE OperatingModes.POWER_LOCK]

get_operating_modes == MODES(MODULE_TYPE)

(***************************************************************************)
(* Applying the outcome of a call to the state.                            *)
(***************************************************************************)
Record(op, arg, out) ==
    /\ reg' = out.reg
    /\ trace' = out.trace
    /\ call' = [op |-> op, arg |-> arg, status |-> out.status,
                error |-> out.error, ret |-> out.ret]

(***************************************************************************)
(* A variant of SuperK.__init__ that compares the serial numbers only when *)
(* the record has one.                                                     *)
(***************************************************************************)
SuperK_init_record_guard(r, serial, recordSerial, devType, portReady, lockProp, after, fault) ==
    LET il == ensure_interlock_ok_run(r, after)
        lk == lock_front_panel_run(devType, il.reg, TRUE, fault)
    IN  IF recordSerial # "" /\ serial # "" /\ serial # recordSerial
        THEN Outcome(r, <<>>, "error", "serial_mismatch", "None")
        ELSE IF devType \notin {MODULE_TYPE_0x60, MODULE_TYPE_0x88}
        THEN Outcome(r, <<>>, "error", "unsupported_module_type", "None")
        ELSE IF ~portReady
        THEN Outcome(r, <<>>, "error", "port_status", "None")
        ELSE IF il.status = "error"
        THEN il
        ELSE IF lockProp
        THEN Outcome(lk.reg, il.trace \o lk.trace, "ok", "none", "None")
        ELSE Outcome(il.reg, il.trace, "ok", "none", "None")

(***************************************************************************)
(* SuperK.__init__(record).  serial, devType, portReady: what the device   *)
(* reports; recordSerial, lockProp: the equipment record.                  *)
(***************************************************************************)
SuperK_init_run(r, serial, recordSerial, devType, portReady, lockProp, after, fault) ==
    LET il == ensure_interlock_ok_run(r, after)
        lk == lock_front_panel_run(devType, il.reg, TRUE, fault)
    IN  IF serial # "" /\ serial # recordSerial
        THEN Outcome(r, <<>>, "error", "serial_mismatch", "None")
        ELSE IF devType \notin {MODULE_TYPE_0x60, MODULE_TYPE_0x88}
        THEN Outcome(r, <<>>, "error", "unsupported_module_type", "None")
        ELSE IF ~portReady
        THEN Outcome(r, <<>>, "error", "port_status", "None")
        ELSE IF il.status = "error"
        THEN il
        ELSE IF lockProp
        THEN Outcome(lk.reg, il.trace \o lk.trace, "ok", "none", "None")
        ELSE Outcome(il.reg, il.trace, "ok", "none", "None")

SuperK_init(serial, recordSerial, devType, portReady, lockProp, after, fault) ==
    /\ superk = "absent"
    /\ LET out == SuperK_init_run(reg, serial, recordSerial, devType, portReady,
                                  lockProp, after, fault)
       IN  /\ Record("SuperK",
                     [serial |-> serial, record_serial |-> recordSerial], out)
           /\ superk' = IF out.status = "ok" THEN "ok" ELSE "absent"
           /\ MODULE_TYPE' = IF out.status = "ok" THEN devType ELSE 0
    /\ UNCHANGED <<USER_TEXT, positionVars, hrs, service>>

ensure_interlock_ok(after) ==
    /\ superk = "ok"
    /\ Record("ensure_interlock_ok", reg["INTERLOCK"], ensure_interlock_ok_run(reg, after))
    /\ UNCHANGED <<superk, MODULE_TYPE, USER_TEXT, positionVars, hrs, service>>

emission(on, fault) ==
    /\ superk = "ok"
    /\ Record("emission", on, emission_run(reg, on, fault))
    /\ UNCHANGED <<superk, MODULE_TYPE, USER_TEXT, positionVars, hrs, service>>

lock_front_panel(on, fault) ==
    /\ superk = "ok"
    /\ Record("lock_front_panel", on, lock_front_panel_run(MODULE_TYPE, reg, on, fault))
    /\ UNCHANGED <<superk, MODULE_TYPE, USER_TEXT, positionVars, hrs, service>>

set_operating_mode(mode, fault, devMode) ==
    /\ superk = "ok"
    /\ Record("set_operating_mode", mode,
              set_operating_mode_run(reg, mode, fault, devMode))
    /\ UNCHANGED <<superk, MODULE_TYPE, USER_TEXT, positionVars, hrs, service>>

set_current_level(k, fault) ==
    /\ superk = "ok"
    /\ Record("set_current_level", k, set_current_level_run(reg, k, fault))
    /\ UNCHANGED <<superk, MODULE_TYPE, USER_TEXT, positionVars, hrs, service>>

set_feedback_level(k, fault) ==
    /\ superk = "ok"
    /\ Record("set_feedback_level", k, set_current_level_run(reg, k, fault))
    /\ UNCHANGED <<superk, MODULE_TYPE, USER_TEXT, positionVars, hrs, service>>

set_power_level(k, fault) ==
    /\ superk = "ok"
    /\ Record("set_power_level", k, set_power_level_run(MODULE_TYPE, reg, k, fault))
    /\ UNCHANGED <<superk, MODULE_TYPE, USER_TEXT, positionVars, hrs, service>>

set_user_text(text, fault) ==
    /\ superk = "ok"
    /\ LET out == set_user_text_run(MODULE_TYPE, USER_TEXT, text, fault)
       IN  /\ USER_TEXT' = out.text
           /\ trace' = out.trace
           /\ call' = [op |-> "set_user_text", arg |-> text, status |-> out.status,
                       error |-> out.error, ret |-> out.ret]
    /\ UNCHANGED <<superk, MODULE_TYPE, reg, positionVars, hrs, service>>

disconnect(fault) ==
    /\ superk = "ok"
    /\ LET out == disconnect_run(MODULE_TYPE, reg, USER_TEXT, fault)
       IN  /\ superk' = IF out.released THEN "disconnected" ELSE "ok"
           /\ reg' = out.reg
           /\ USER_TEXT' = out.text
           /\ trace' = out.trace
           /\ call' = [op |-> "disconnect", arg |-> "None", status |-> out.status,
                       error |-> out.error, ret |-> out.ret]
    /\ UNCHANGED <<MODULE_TYPE, positionVars, hrs, service>>

RecordPosition(op, arg, out) ==
    /\ mono' = out.mono
    /\ wheel' = out.wheel
    /\ trace' = out.trace
    /\ call' = [op |-> op, arg |-> arg, status |-> out.status,
                error |-> out.error, ret |-> out.ret]
    /\ UNCHANGED <<laserVars, fw212, hrs, service>>

set_filter_position(h, moved) ==
    RecordPosition("set_filter_position", h,
                   set_filter_position_run(hrs, mono, wheel, h, moved))

set_grating_position(h, moved) ==
    RecordPosition("set_grating_position", h,
                   set_grating_position_run(hrs, mono, wheel, h, moved))

home_filter_wheel(home) ==
    RecordPosition("home_filter_wheel", "None", home_run(mono, wheel, "filter", home))

home_front_entrance_slit(home) ==
    RecordPosition("home_front_entrance_slit", "None",
                   home_run(mono, wheel, "front_entrance_slit", home))

home_front_exit_slit(home) ==
    RecordPosition("home_front_exit_slit", "None",
                   home_run(mono, wheel, "front_exit_slit", home))

set_front_entrance_slit_width(h, moved) ==
    RecordPosition("set_front_entrance_slit_width", h,
                   set_front_entrance_slit_width_run(mono, wheel, h, moved))

set_front_exit_slit_width(h, moved) ==
    RecordPosition("set_front_exit_slit_width", h,
                   set_front_exit_slit_width_run(mono, wheel, h, moved))

set_position(h, truncates) ==
    /\ fw212.built
    /\ RecordPosition("set_position", h, set_position_run(fw212, mono, wheel, h, truncates))

FW212CNEB_init(filters) ==
    /\ ~fw212.built
    /\ LET out == FW212CNEB_init_run(wheel.count, filters)
       IN  /\ fw212' = out.fw
           /\ call' = [op |-> "FW212CNEB", arg |-> filters, status |-> out.status,
                       error |-> out.error, ret |-> "None"]
    /\ trace' = <<Cmd("read", "position_count", wheel.count, wheel.count, TRUE)>>
    /\ UNCHANGED <<laserVars, mono, wheel, hrs, service>>

(***************************************************************************)
(* The enable_*_mode wrappers.                                             *)
(***************************************************************************)
enable_mode(m, fault, devMode) ==
    set_operating_mode(IntMode(m), fault, devMode)

(***************************************************************************)
(* parse_args(): argc is the number of command line arguments, isFile      *)
(* says whether the first one names a file.  exit = 0: it returned.        *)
(***************************************************************************)
parse_args(argc, isFile) ==
    IF argc = 0 THEN [exit |-> 1, prompts |-> 1]
    ELSE IF ~isFile THEN [exit |-> 1, prompts |-> 1]
    ELSE [exit |-> 0, prompts |-> 0]

HandledAliases == {"superk", "mono-hrs", "nd-wheel"}

RecordSerial == "X123"

(***************************************************************************)
(* The constructor start_service calls for the alias, and the disconnect   *)
(* of the wrapper it made (BaseEquipment.disconnect for the monochromator  *)
(* and the filter wheel).  in: what the device and the record hold.        *)
(***************************************************************************)
ServiceCtor(alias, r, w, in) ==
    IF alias = "superk"
    THEN LET o == SuperK_init_run(r, in.serial, RecordSerial, in.devType, TRUE,
                                  in.lockProp, 2, FALSE)
         IN  [ok |-> o.status = "ok", reg |-> o.reg, trace |-> o.trace]
    ELSE IF alias = "nd-wheel"
    THEN LET o == FW212CNEB_init_run(w.count, in.filters)
         IN  [ok |-> o.status = "ok", reg |-> r,
              trace |-> <<Cmd("read", "position_count", w.count, w.count, TRUE)>>]
    ELSE [ok |-> in.connects, reg |-> r, trace |-> <<>>]

ServiceDisconnect(alias, mt, r, text, dfault) ==
    IF alias = "superk"
    THEN disconnect_run(mt, r, text, dfault)
    ELSE DisconnectOutcome(r, text, <<Cmd("disconnect", "port", 0, 0, TRUE)>>,
                           "ok", "none", TRUE)

StartupOutcome(r, t, serving, error, prompts, constructed) ==
    [reg |-> r, trace |-> t, serving |-> serving, error |-> error,
     prompts |-> prompts, constructed |-> constructed]

(***************************************************************************)
(* start_service(), from the command line to the call of service.start     *)
(* (serving), or to the end of the process when something before it fails: *)
(* sys.exit(1) after a prompt, or an exception nothing catches (the        *)
(* ValueError of `path, alias = parse_args()`, the error of                *)
(* wait_for_server); either way the exit status is 1.  prompts: the calls  *)
(* of input(); constructed: the wrapper's constructor returned.  inDb: the *)
(* database has a record for the alias; waitFails: wait_for_server raises. *)
(***************************************************************************)
start_service_startup(r, w, argc, isFile, alias, inDb, in, waitFails) ==
    LET args == parse_args(argc, isFile)
        ctor == ServiceCtor(alias, r, w, in)
    IN  IF args.exit # 0
        THEN StartupOutcome(r, <<>>, FALSE, "SystemExit", args.prompts, FALSE)
        ELSE IF argc # 2
        THEN StartupOutcome(r, <<>>, FALSE, "ValueError", 0, FALSE)
        ELSE IF ~inDb
        THEN StartupOutcome(r, <<>>, FALSE, "SystemExit", 1, FALSE)
        ELSE IF alias \notin HandledAliases
        THEN StartupOutcome(r, <<>>, FALSE, "SystemExit", 1, FALSE)
        ELSE IF ~ctor.ok
        THEN StartupOutcome(ctor.reg, ctor.trace, FALSE, "SystemExit", 1, FALSE)
        ELSE IF waitFails
        THEN StartupOutcome(ctor.reg, ctor.trace, FALSE, "wait_for_server", 0, TRUE)
        ELSE StartupOutcome(ctor.reg, ctor.trace, TRUE, "none", 0, TRUE)

(* The wrapper lives in the service's process and ends with it. *)
start_service(argc, isFile, alias, inDb, in, waitFails) ==
    /\ service.phase = "none"
    /\ superk = "absent"
    /\ ~fw212.built
    /\ LET out == start_service_startup(reg, wheel, argc, isFile, alias, inDb, in, waitFails)
           up(a) == out.serving /\ alias = a
       IN  /\ reg' = out.reg
           /\ trace' = out.trace
           /\ superk' = IF up("superk") THEN "ok" ELSE "absent"
           /\ MODULE_TYPE' = IF up("superk") THEN in.devType ELSE 0
           /\ fw212' = IF up("nd-wheel") THEN FW212CNEB_init_run(wheel.count, in.filters).fw
                       ELSE fw212
           /\ hrs' = IF up("mono-hrs") THEN HRSMonochromator_init_run({}, in.filters)
                     ELSE hrs
           /\ service' = [phase |-> IF out.serving THEN "serving" ELSE "exited",
                          alias |-> alias, argc |-> argc, is_file |-> isFile,
                          in_db |-> inDb, wait_fails |-> waitFails, start_raises |-> FALSE,
                          exit |-> IF out.serving THEN 0 ELSE 1, prompts |-> out.prompts,
                          constructed |-> out.constructed, disconnects |-> 0]
           /\ call' = [op |-> "start_service", arg |-> alias,
                       status |-> IF out.serving THEN "ok" ELSE "error",
                       error |-> out.error, ret |-> "None"]
    /\ UNCHANGED <<USER_TEXT, mono, wheel>>

(***************************************************************************)
(* The end of start_service: service.start returns, or raises an Exception *)
(* (startRaises), which is answered with a prompt; the finally clause      *)
(* calls service.disconnect() (dfault: the fault of the laser's            *)
(* disconnect); the function returns (exit status 0) unless disconnect     *)
(* raised.  The requests the service handled in between are the steps of   *)
(* the wrapper's own actions.                                              *)
(***************************************************************************)
service_start_ends(startRaises, dfault) ==
    /\ service.phase = "serving"
    /\ LET disc == ServiceDisconnect(service.alias, MODULE_TYPE, reg, USER_TEXT, dfault)
       IN  /\ reg' = disc.reg
           /\ USER_TEXT' = disc.text
           /\ trace' = disc.trace
           /\ service' = [service EXCEPT
                            !.phase = "exited",
                            !.start_raises = startRaises,
                            !.exit = IF disc.status = "error" THEN 1 ELSE 0,
                            !.prompts = IF startRaises THEN @ + 1 ELSE @,
                            !.disconnects = @ + 1]
           /\ call' = [op |-> "service.disconnect", arg |-> service.alias,
                       status |-> disc.status, error |-> disc.error, ret |-> "None"]
    /\ superk' = "absent"
    /\ MODULE_TYPE' = 0
    /\ fw212' = [built |-> FALSE, max_position |-> 0, od_map |-> {}]
    /\ UNCHANGED <<mono, wheel, hrs>>

(* A request the service of the alias handles while service.start runs. *)
Serving(alias) == service.phase = "serving" /\ service.alias = alias

(***************************************************************************)
(* The environment: the interlock circuit (key switch, door) changes the   *)
(* status the INTERLOCK register reports.                                  *)
(***************************************************************************)
InterlockCodes == 0 .. 3

InterlockChanges(v) ==
    /\ reg["INTERLOCK"] # v
    /\ reg' = [reg EXCEPT !["INTERLOCK"] = v]
    /\ UNCHANGED <<superk, MODULE_TYPE, USER_TEXT, positionVars, hrs, service, call, trace>>

Serials == {"", "X123", "Y999"}

NoCall == [op |-> "none", arg |-> "None", status |-> "ok", error |-> "none", ret |-> "None"]

NoService ==
    [phase |-> "none", alias |-> "none", argc |-> 0, is_file |-> FALSE, in_db |-> FALSE,
     wait_fails |-> FALSE, start_raises |-> FALSE, exit |-> 0, prompts |-> 0,
     constructed |-> FALSE, disconnects |-> 0]

InitAll(regs, counts, infos) ==
    /\ hrs \in infos
    /\ service = NoService
    /\ superk = "absent"
    /\ MODULE_TYPE = 0
    /\ reg \in regs
    /\ USER_TEXT = <<>>
    /\ mono = [filter |-> 1, grating |-> 1,
               front_entrance_slit |-> SLIT_MIN, front_exit_slit |-> SLIT_MIN]
    /\ fw212 = [built |-> FALSE, max_position |-> 0, od_map |-> {}]
    /\ wheel \in [count : counts, position : {1}]
    /\ call = NoCall
    /\ trace = <<>>

InitWith(regs, counts) == InitAll(regs, counts, {HRSMonochromator_init_run({}, {})})

(* The registers of a laser at rest with the interlock in state il. *)
Registers(il) ==
    {r \in [RegNames -> 0 .. POWER_LOCK] :
        /\ r["EMISSION"] \in {0, 3}
        /\ r["INTERLOCK"] \in il
        /\ r["CURRENT_LEVEL"] = 0 /\ r["POWER_LEVEL"] = 0
        /\ r["PANEL_LOCK"] = 0}

Init == InitWith(Registers(InterlockCodes), {12})

Next ==
    \/ \E serial \in Serials, recordSerial \in Serials,
          devType \in {MODULE_TYPE_0x60, MODULE_TYPE_0x88, MODULE_TYPE_0x60 + 1},
          portReady \in BOOLEAN, lockProp \in BOOLEAN,
          after \in InterlockCodes, fault \in BOOLEAN :
            SuperK_init(serial, recordSerial, devType, portReady, lockProp, after, fault)
    \/ \E after \in InterlockCodes : ensure_interlock_ok(after)
    \/ \E on \in BOOLEAN, fault \in BOOLEAN : emission(on, fault)
    \/ \E on \in BOOLEAN, fault \in BOOLEAN : lock_front_panel(on, fault)
    \/ \E mode \in ModeInputs, fault \in 0 .. 2, devMode \in ModeValues :
            set_operating_mode(mode, fault, devMode)
    \/ \E m \in ModeValues, fault \in 0 .. 2, devMode \in ModeValues :
            enable_mode(m, fault, devMode)
    \/ \E v \in InterlockCodes : InterlockChanges(v)

Spec == Init /\ [][Next]_vars

(***************************************************************************)
(* The level and user text operations of a laser whose constructor met a   *)
(* ready port, the record's serial number and an interlock that is okay.   *)
(***************************************************************************)
Construct ==
    \E devType \in {MODULE_TYPE_0x60, MODULE_TYPE_0x88} :
        SuperK_init("X123", "X123", devType, TRUE, FALSE, 2, FALSE)

InitQuiet ==
    InitWith({r \in Registers({2}) : r["EMISSION"] = 0 /\ r["MODE"] = 0}, {12})

NextLevel ==
    \/ Construct
    \/ \E k \in LevelTenths, fault \in BOOLEAN : set_current_level(k, fault)
    \/ \E k \in LevelTenths, fault \in BOOLEAN : set_feedback_level(k, fault)
    \/ \E k \in LevelTenths, fault \in BOOLEAN : set_power_level(k, fault)

SpecLevel == InitQuiet /\ [][NextLevel]_vars

MaxTextLen == 243

Digits == <<"0", "1", "2", "3", "4", "5", "6", "7", "8", "9">>

(* '0123456789012...', of n characters *)
TextOfLen(n) == [i \in 1 .. n |-> Digits[((i - 1) % 10) + 1]]

Texts == {TextOfLen(n) : n \in 0 .. MaxTextLen} \cup {<<"H", "e", "l", "l", "o">>}

NextText ==
    \/ Construct
    \/ \E text \in Texts : set_user_text(text, FALSE)

SpecText == InitQuiet /\ [][NextText]_vars

(***************************************************************************)
(* A session with the laser: every public operation that writes to the     *)
(* device, each with and without a transport error, from the constructor   *)
(* to disconnect.                                                          *)
(***************************************************************************)
SessionTenths == {0, MaxLow, MaxPercent * Scale + 1}

SessionTexts == {<<>>, <<"H", "e", "l", "l", "o">>}

NextSession ==
    \/ \E devType \in {MODULE_TYPE_0x60, MODULE_TYPE_0x88},
          lockProp \in BOOLEAN, fault \in BOOLEAN :
            SuperK_init("X123", "X123", devType, TRUE, lockProp, 2, fault)
    \/ \E after \in {2, 3} : ensure_interlock_ok(after)
    \/ \E on \in BOOLEAN, fault \in BOOLEAN : emission(on, fault)
    \/ \E on \in BOOLEAN, fault \in BOOLEAN : lock_front_panel(on, fault)
    \/ \E m \in {MODULATED_CURRENT, POWER_LOCK}, fault \in 0 .. 2 :
            set_operating_mode(IntMode(m), fault, m)
    \/ \E k \in SessionTenths, fault \in BOOLEAN : set_current_level(k, fault)
    \/ \E k \in SessionTenths, fault \in BOOLEAN : set_feedback_level(k, fault)
    \/ \E k \in SessionTenths, fault \in BOOLEAN : set_power_level(k, fault)
    \/ \E text \in SessionTexts, fault \in BOOLEAN : set_user_text(text, fault)
    \/ \E fault \in 0 .. 3 : disconnect(fault)

SpecSession == InitQuiet /\ [][NextSession]_vars

(***************************************************************************)
(* The service process: one run of start_service, with the requests it     *)
(* handles while service.start runs, against a laser whose interlock is    *)
(* okay or off and a wheel of 12 positions.                                *)
(***************************************************************************)
MaxArgs == 3

LaserInputs ==
    [serial : {RecordSerial, "Y999"}, devType : {MODULE_TYPE_0x60, MODULE_TYPE_0x88},
     lockProp : BOOLEAN, filters : {{}}, connects : {TRUE}]

WheelInputs ==
    [serial : {RecordSerial}, devType : {MODULE_TYPE_0x60}, lockProp : {FALSE},
     filters : {{}, 1 .. 11}, connects : {TRUE}]

OtherInputs ==
    [serial : {RecordSerial}, devType : {MODULE_TYPE_0x60}, lockProp : {FALSE},
     filters : {{}, {1, 2}}, connects : BOOLEAN]

InitService ==
    InitWith({r \in Registers({2, 3}) : r["EMISSION"] = 0 /\ r["MODE"] = 0}, {12})

NextService ==
    \/ \E argc \in 0 .. MaxArgs, isFile \in BOOLEAN, inDb \in BOOLEAN,
          waitFails \in BOOLEAN :
            \/ \E in \in LaserInputs :
                  start_service(argc, isFile, "superk", inDb, in, waitFails)
            \/ \E in \in WheelInputs :
                  start_service(argc, isFile, "nd-wheel", inDb, in, waitFails)
            \/ \E in \in OtherInputs, alias \in {"mono-hrs", "camera"} :
                  start_service(argc, isFile, alias, inDb, in, waitFails)
    \/ \E startRaises \in BOOLEAN, dfault \in {0, 2, 3} :
            service_start_ends(startRaises, dfault)
    \/ Serving("superk") /\ \E on \in BOOLEAN : emission(on, FALSE)
    \/ Serving("superk") /\ set_current_level(MaxLow, FALSE)
    \/ Serving("superk") /\ set_user_text(<<"H", "e", "l", "l", "o">>, FALSE)
    \/ Serving("mono-hrs") /\ \E h \in {4, 8} : set_filter_position(h, TRUE)
    \/ Serving("nd-wheel") /\ \E h \in {14, 15} : set_position(h, TRUE)

SpecService == InitService /\ [][NextService]_vars

(***************************************************************************)
(* The position setters of the monochromator and of the filter wheel.      *)
(***************************************************************************)
PosSlack == 2
MaxKeyShift == 2

Halves(limit) == (-PosSlack) .. (2 * limit + 1 + PosSlack)

FilterMaps ==
    {{}} \cup {lo .. hi : lo \in 0 .. MaxKeyShift, hi \in {5, 6, 11, 12, 13}}

InitPosition ==
    InitWith({r \in Registers({2}) : r["EMISSION"] = 0 /\ r["MODE"] = 0}, {6, 12})

NextPosition ==
    \/ \E filters \in FilterMaps : FW212CNEB_init(filters)
    \/ \E h \in Halves(FILTER_MAX), moved \in BOOLEAN : set_filter_position(h, moved)
    \/ \E h \in Halves(GRATING_MAX), moved \in BOOLEAN : set_grating_position(h, moved)
    \/ \E h \in Halves(wheel.count), truncates \in BOOLEAN : set_position(h, truncates)
    \/ home_filter_wheel(1)

SpecPosition == InitPosition /\ [][NextPosition]_vars

(***************************************************************************)
(* The setters of the monochromator that read back what they set.          *)
(***************************************************************************)
SlitHalves ==
    ((2 * SLIT_MIN - PosSlack) .. (2 * SLIT_MIN + 1))
    \cup ((2 * SLIT_MAX - 1) .. (2 * SLIT_MAX + 1 + PosSlack))

NextMono ==
    \/ \E h \in Halves(FILTER_MAX), moved \in BOOLEAN : set_filter_position(h, moved)
    \/ \E h \in Halves(GRATING_MAX), moved \in BOOLEAN : set_grating_position(h, moved)
    \/ \E h \in SlitHalves, moved \in BOOLEAN : set_front_entrance_slit_width(h, moved)
    \/ \E h \in SlitHalves, moved \in BOOLEAN : set_front_exit_slit_width(h, moved)
    \/ home_filter_wheel(1)
    \/ home_front_entrance_slit(SLIT_MIN)
    \/ home_front_exit_slit(SLIT_MIN)

(* The info maps of a record: none (the defaults), or maps of its own. *)
InfoMaps ==
    {HRSMonochromator_init_run(gratings, filters) :
        gratings \in {{}, {1, 2}}, filters \in {{}, {1, 2}, 0 .. 5}}

InitMono ==
    InitAll({r \in Registers({2}) : r["EMISSION"] = 0 /\ r["MODE"] = 0}, {12}, InfoMaps)

SpecMono == InitMono /\ [][NextMono]_vars

(***************************************************************************)
(* Helpers of the properties: the commands of the last call that write     *)
(* register r (a write or a write-read, failed or not).                    *)
(***************************************************************************)
IsWrite(c) == c.cmd \in {"write", "write_read"}
WritesTo(r) == {i \in DOMAIN trace : IsWrite(trace[i]) /\ trace[i].reg = r}
AnyWrite == {i \in DOMAIN trace : IsWrite(trace[i])}

(***************************************************************************)
(* C1: a call of ensure_interlock_ok that reads 2 returns True; one that   *)
(* reads 1 writes 1 to INTERLOCK exactly once and returns True exactly     *)
(* when the status read back is 2; every other call fails with an error    *)
(* (first read not in {1,2}, or read-back not 2).  No call, the one made   *)
(* by the constructor included, writes INTERLOCK more than once.           *)
(***************************************************************************)
C1_InterlockResolution ==
    /\ call.op \in {"ensure_interlock_ok", "SuperK"} => Cardinality(WritesTo("INTERLOCK")) <= 1
    /\ call.op = "ensure_interlock_ok" =>
         /\ call.arg = 2 => call.status = "ok" /\ call.ret = TRUE /\ AnyWrite = {}
         /\ call.arg = 1 =>
              /\ Len(trace) = 2
              /\ WritesTo("INTERLOCK") = {2}
              /\ trace[2].val = 1
              /\ (call.status = "ok" /\ call.ret = TRUE) <=> trace[2].resp = 2
              /\ call.status = "error" <=> trace[2].resp # 2
         /\ call.arg \notin {1, 2} => call.status = "error" /\ AnyWrite = {}

C1_Witness ==
    /\ call.op = "ensure_interlock_ok"
    /\ call.arg = 1
    /\ call.status = "error"
    /\ trace[2].resp = 3

(***************************************************************************)
(* C2: in a call of set_operating_mode (the enable_*_mode wrappers are     *)
(* calls of it) the MODE register is written only after a write of 0 to    *)
(* EMISSION that raised nothing, not at all when that write failed, and at *)
(* most once.                                                              *)
(***************************************************************************)
C2_ModeAfterEmissionOff ==
    call.op = "set_operating_mode" =>
        /\ \A i \in WritesTo("MODE") :
              \E j \in 1 .. (i - 1) :
                  /\ trace[j].cmd = "write" /\ trace[j].reg = "EMISSION"
                  /\ trace[j].val = 0 /\ trace[j].ok
        /\ (\E j \in WritesTo("EMISSION") : ~trace[j].ok) => WritesTo("MODE") = {}
        /\ Cardinality(WritesTo("MODE")) <= 1

C2_Witness ==
    /\ call.op = "set_operating_mode"
    /\ call.error = "cannot_turn_emission"
    /\ Len(trace) = 1 /\ ~trace[1].ok
    /\ reg["EMISSION"] = 3

(***************************************************************************)
(* C3: after a call set_operating_mode(m) that returned normally, and      *)
(* until another call is made, is_emission_on() is False and               *)
(* get_operating_mode() is m.                                              *)
(***************************************************************************)
C3_ModeSetEmissionOff ==
    (call.op = "set_operating_mode" /\ call.status = "ok") =>
        /\ ~is_emission_on
        /\ get_operating_mode = convert_to_enum(call.arg)

C3_Witness ==
    /\ call.op = "set_operating_mode" /\ call.status = "ok"
    /\ call.arg = StrMode(<<"p", "o", "w", "e", "r", " ", "l", "o", "c", "k">>)
    /\ get_operating_mode = POWER_LOCK
    /\ MODULE_TYPE = MODULE_TYPE_0x88

(***************************************************************************)
(* C4: after a successful mode change to m exactly one of the five         *)
(* is_*_mode predicates is true, the one of m.                             *)
(***************************************************************************)
ModePredicates ==
    <<is_constant_current_mode, is_constant_power_mode, is_modulated_current_mode,
      is_modulated_power_mode, is_power_lock_mode>>

C4_ExactlyOnePredicate ==
    (call.op = "set_operating_mode" /\ call.status = "ok") =>
        /\ Cardinality({i \in 1 .. 5 : ModePredicates[i]}) = 1
        /\ \A i \in 1 .. 5 : ModePredicates[i] <=> (i - 1 = convert_to_enum(call.arg))

C4_Witness ==
    /\ call.op = "set_operating_mode" /\ call.status = "ok"
    /\ call.arg = IntMode(MODULATED_CURRENT)
    /\ is_modulated_current_mode
    /\ ~is_constant_current_mode /\ ~is_power_lock_mode

(***************************************************************************)
(* C9: SuperK.__init__ fails with the serial number mismatch error         *)
(* whenever the device reports a serial number that differs from the       *)
(* record's (the claim as stated; the code skips the comparison when the   *)
(* device reports an empty serial number).                                 *)
(***************************************************************************)
C9_Original ==
    (call.op = "SuperK" /\ call.arg.serial # call.arg.record_serial) =>
        call.status = "error" /\ call.error = "serial_mismatch"

(***************************************************************************)
(* C9, amended: SuperK.__init__ fails with the serial number mismatch      *)
(* error whenever the device reports a non-empty serial number that        *)
(* differs from the record's; a constructed wrapper's device reported the  *)
(* record's serial number or an empty one.                                 *)
(***************************************************************************)
C9_SerialMismatch ==
    call.op = "SuperK" =>
        /\ (call.arg.serial # "" /\ call.arg.serial # call.arg.record_serial) =>
              call.status = "error" /\ call.error = "serial_mismatch" /\ superk = "absent"
        /\ call.status = "ok" =>
              call.arg.serial = "" \/ call.arg.serial = call.arg.record_serial

C9_Witness ==
    /\ call.op = "SuperK"
    /\ call.arg.serial = "Y999" /\ call.arg.record_serial = ""
    /\ call.error = "serial_mismatch"
    /\ trace = <<>>

(***************************************************************************)
(* C5: for every percentage p = k / 10 in [0, 100], against a register     *)
(* that stores what is written, a level setter that returns normally       *)
(* returns p, the matching getter then returns p, and the value written is *)
(* 10 * p = k.  (The code answers float(val) * 0.1, which is not k / 10    *)
(* for k = 3: the statement fails.)                                        *)
(***************************************************************************)
LevelSetters == {"set_current_level", "set_feedback_level", "set_power_level"}

LevelGetter(op) ==
    IF op = "set_power_level" THEN get_power_level
    ELSE IF op = "set_feedback_level" THEN get_feedback_level
    ELSE get_current_level

C5_LevelRoundTrip ==
    (/\ call.op \in LevelSetters
     /\ call.arg \in 0 .. (MaxPercent * Scale)
     /\ call.status = "ok") =>
        /\ trace[1].val = call.arg
        /\ call.ret = Percentage[call.arg]
        /\ LevelGetter(call.op) = Percentage[call.arg]

(***************************************************************************)
(* C6: a level setter called with p < 0 or p > 100 fails with an error,    *)
(* issues no device command and leaves every register as it was.           *)
(***************************************************************************)
C6_OutOfRangeRejected ==
    [][(/\ call'.op \in LevelSetters
        /\ (call'.arg < 0 \/ call'.arg > MaxPercent * Scale)) =>
            /\ call'.status = "error"
            /\ trace' = <<>>
            /\ reg' = reg]_vars

C6_Witness ==
    /\ call.op = "set_power_level"
    /\ call.arg = MaxPercent * Scale + 1
    /\ call.error = "invalid_power_level"
    /\ trace = <<>>
    /\ reg["POWER_LEVEL"] = MaxPercent * Scale

(***************************************************************************)
(* C8: set_user_text(t) returns the text the register then holds: t cut to *)
(* the limit of the module type (20 on 0x60, 240 on 0x88) when t is        *)
(* longer, a single space for an empty t on 0x88, and t otherwise; and     *)
(* get_user_text then returns the same text.                               *)
(***************************************************************************)
C8_UserText ==
    call.op = "set_user_text" =>
        LET t == call.arg
            limit == IF MODULE_TYPE = MODULE_TYPE_0x60 THEN 20 ELSE 240
            expected == IF Len(t) > limit THEN [i \in 1 .. limit |-> t[i]]
                        ELSE IF t = <<>> /\ MODULE_TYPE = MODULE_TYPE_0x88 THEN <<" ">>
                        ELSE t
        IN  /\ call.status = "ok"
            /\ call.ret = expected
            /\ get_user_text = expected

C8_Witness ==
    /\ call.op = "set_user_text"
    /\ MODULE_TYPE = MODULE_TYPE_0x88
    /\ Len(call.arg) = 241
    /\ Len(call.ret) = 240
    /\ get_user_text = call.ret

(***************************************************************************)
(* C7 as stated: a position setter given a position outside its bounds     *)
(* ([1,6] filter, [1,3] grating, [1,max_position] wheel) fails with an     *)
(* error and issues no command.  (6.5 is outside [1,6], and                *)
(* set_filter_position(6.5) moves the filter wheel to 6.)                  *)
(***************************************************************************)
PositionSetters == {"set_filter_position", "set_grating_position", "set_position"}

PositionLimit(op, fw) ==
    IF op = "set_filter_position" THEN FILTER_MAX
    ELSE IF op = "set_grating_position" THEN GRATING_MAX
    ELSE fw.max_position

C7_Original ==
    (/\ call.op \in PositionSetters
     /\ (call.arg < 2 \/ call.arg > 2 * PositionLimit(call.op, fw212))) =>
        call.status = "error" /\ trace = <<>>

(***************************************************************************)
(* C7, amended: a position setter given a position whose integer part      *)
(* int(position) is outside its bounds fails with an error, issues no      *)
(* command (no move, no read) and leaves the device where it was.          *)
(***************************************************************************)
C7_OutOfBoundsRejected ==
    [][(/\ call'.op \in PositionSetters
        /\ IntOfHalves(call'.arg) \notin 1 .. PositionLimit(call'.op, fw212')) =>
            /\ call'.status = "error"
            /\ trace' = <<>>
            /\ mono' = mono
            /\ wheel' = wheel]_vars

C7_Witness ==
    /\ call.op = "set_position"
    /\ fw212.max_position = 12
    /\ call.arg = 1
    /\ call.error = "invalid_position"
    /\ trace = <<>>
    /\ wheel.position = 12

(***************************************************************************)
(* C10 as stated: a constructed FW212CNEB has exactly one optical density  *)
(* entry for each position 1..max of the device.  (The code compares only  *)
(* the number of entries: the keys 0..11 pass for 12 positions.)           *)
(***************************************************************************)
C10_Original ==
    fw212.built => fw212.od_map = 1 .. wheel.count

(***************************************************************************)
(* C10, amended: the constructor succeeds exactly when the number of       *)
(* entries of the map (the configured one, or the default of 12 entries    *)
(* when none or an empty one is configured) is the number of positions the *)
(* device reports, and fails with an error otherwise (11 entries for 12    *)
(* positions); a constructed wrapper has max_position entries.             *)
(***************************************************************************)
C10_FilterMapSize ==
    /\ call.op = "FW212CNEB" =>
          LET n == IF call.arg = {} THEN 12 ELSE Cardinality(call.arg)
          IN  /\ call.status = "ok" <=> n = wheel.count
              /\ call.status = "ok" <=> fw212.built
              /\ call.status = "error" <=> call.error = "filter_map_size"
    /\ fw212.built =>
          /\ fw212.max_position = wheel.count
          /\ Cardinality(fw212.od_map) = fw212.max_position

C10_Witness ==
    /\ call.op = "FW212CNEB"
    /\ call.arg = 1 .. 11
    /\ wheel.count = 12
    /\ call.error = "filter_map_size"
    /\ ~fw212.built

(***************************************************************************)
(* C11: on a wrapper of module type 0x88 get_operating_modes() is exactly  *)
(* {Constant current, Power lock}; yet enable_modulated_current_mode() is  *)
(* not refused by the client: its first command is the write of 0 to       *)
(* EMISSION and, that write made, the emission is off and MODE is written  *)
(* with the modulated-current code; is_modulated_current_mode() is True    *)
(* exactly when the MODE register holds that code.                         *)
(***************************************************************************)
C11_UngatedMode ==
    (superk = "ok" /\ MODULE_TYPE = MODULE_TYPE_0x88) =>
        /\ DOMAIN get_operating_modes = {"Constant current", "Power lock"}
        /\ get_operating_modes["Constant current"] = 0
        /\ get_operating_modes["Power lock"] = 4
        /\ is_modulated_current_mode <=> reg["MODE"] = 2
        /\ (call.op = "set_operating_mode" /\ call.arg = IntMode(MODULATED_CURRENT)) =>
              /\ call.error # "ValueError"
              /\ Len(trace) >= 1
              /\ trace[1].cmd = "write" /\ trace[1].reg = "EMISSION" /\ trace[1].val = 0
              /\ trace[1].ok =>
                    /\ ~is_emission_on
                    /\ Len(trace) = 2
                    /\ IsWrite(trace[2]) /\ trace[2].reg = "MODE" /\ trace[2].val = 2
                    /\ trace[2].ok => reg["MODE"] = trace[2].resp

C11_Witness ==
    /\ superk = "ok" /\ MODULE_TYPE = MODULE_TYPE_0x88
    /\ call.op = "set_operating_mode" /\ call.arg = IntMode(MODULATED_CURRENT)
    /\ call.error = "cannot_set_mode"
    /\ trace[2].val = 2 /\ trace[2].resp = 0
    /\ ~is_modulated_current_mode

(***************************************************************************)
(* C12: on module type 0x88 a call lock_front_panel(on), for on = True and *)
(* for on = False, returns False, raises nothing and issues no command to  *)
(* the device; the PANEL_LOCK register is what it was before the call.     *)
(***************************************************************************)
C12_PanelLockUnsupported ==
    /\ []((call.op = "lock_front_panel" /\ MODULE_TYPE = MODULE_TYPE_0x88) =>
            /\ call.status = "ok"
            /\ call.ret = FALSE
            /\ trace = <<>>)
    /\ [][(call'.op = "lock_front_panel" /\ MODULE_TYPE' = MODULE_TYPE_0x88) =>
            reg'["PANEL_LOCK"] = reg["PANEL_LOCK"]]_vars

C12_Witness ==
    /\ call.op = "lock_front_panel" /\ MODULE_TYPE = MODULE_TYPE_0x88
    /\ call.arg = TRUE
    /\ call.ret = FALSE
    /\ trace = <<>>
    /\ reg["PANEL_LOCK"] = 0

(***************************************************************************)
(* C13: while the INTERLOCK register reads 2, a call of                    *)
(* ensure_interlock_ok returns True and issues no write, and so does a     *)
(* second call made right after it, whatever the device would answer to a  *)
(* reset; such a call leaves the mode, the emission, the panel lock, the   *)
(* levels and the user text as they were.                                  *)
(***************************************************************************)
C13_InterlockIdempotent ==
    /\ []((superk = "ok" /\ reg["INTERLOCK"] = 2) =>
            \A after \in InterlockCodes :
                LET first == ensure_interlock_ok_run(reg, after)
                    second == ensure_interlock_ok_run(first.reg, after)
                IN  /\ first.status = "ok" /\ first.ret = TRUE
                    /\ first.reg = reg
                    /\ \A i \in DOMAIN first.trace : ~IsWrite(first.trace[i])
                    /\ second = first)
    /\ []((call.op = "ensure_interlock_ok" /\ call.arg = 2) =>
            call.status = "ok" /\ call.ret = TRUE /\ AnyWrite = {})
    /\ [][(call'.op = "ensure_interlock_ok" /\ call'.arg = 2) =>
            /\ \A r \in RegNames \ {"INTERLOCK"} : reg'[r] = reg[r]
            /\ USER_TEXT' = USER_TEXT]_vars

C13_Witness ==
    /\ call.op = "ensure_interlock_ok" /\ call.arg = 2
    /\ call.ret = TRUE
    /\ reg["INTERLOCK"] = 2
    /\ reg["EMISSION"] = 3 /\ reg["PANEL_LOCK"] = 1 /\ reg["MODE"] = POWER_LOCK

(***************************************************************************)
(* C17: every call of disconnect issues, in this order, the write that     *)
(* unlocks the front panel, the write of the empty user text, close_ports  *)
(* and the disconnect of the connection; when it has returned the panel is *)
(* unlocked and the stored user text is empty; and the transport is        *)
(* released whichever way the call ended.  (The statement fails: module    *)
(* type 0x88 gets no unlock write and a text of one space, a failed unlock *)
(* is caught and leaves the panel locked, and a user text write or a       *)
(* close_ports that raises ends the call with the transport still open.)   *)
(***************************************************************************)
C17_DisconnectOrder ==
    call.op = "disconnect" =>
        /\ \E i, j, k, l \in DOMAIN trace :
              /\ i < j /\ j < k /\ k < l
              /\ IsWrite(trace[i]) /\ trace[i].reg = "PANEL_LOCK" /\ trace[i].val = 0
              /\ IsWrite(trace[j]) /\ trace[j].reg = "USER_TEXT" /\ trace[j].val = <<>>
              /\ trace[k].cmd = "close_ports"
              /\ trace[l].cmd = "disconnect"
        /\ call.status = "ok" => reg["PANEL_LOCK"] = 0 /\ get_user_text = <<>>
        /\ superk = "disconnected"

(***************************************************************************)
(* C15 as stated: no operation returns normally after a write it attempted *)
(* raised OSError; emission(on) writes 0 for off and 3 for on and fails    *)
(* with "cannot turn emission" when the write raises; and the only         *)
(* operation that returns normally without having made its write is        *)
(* lock_front_panel on module type 0x88, which attempts none.              *)
(* (lock_front_panel on module type 0x60 catches the OSError of its write  *)
(* and returns False.)                                                     *)
(***************************************************************************)
FailedWrites == {i \in DOMAIN trace : IsWrite(trace[i]) /\ ~trace[i].ok}

WritingOps ==
    {"emission", "lock_front_panel", "set_operating_mode", "set_current_level",
     "set_feedback_level", "set_power_level", "set_user_text"}

EmissionTranslated ==
    call.op = "emission" =>
        /\ Len(trace) = 1
        /\ trace[1].cmd = "write" /\ trace[1].reg = "EMISSION"
        /\ trace[1].val = (IF call.arg THEN 3 ELSE 0)
        /\ trace[1].ok => call.status = "ok" /\ reg["EMISSION"] = trace[1].val
        /\ ~trace[1].ok => call.status = "error" /\ call.error = "cannot_turn_emission"

C15_Original ==
    /\ call.status = "ok" => FailedWrites = {}
    /\ EmissionTranslated
    /\ (call.op \in WritingOps /\ call.status = "ok" /\ AnyWrite = {}) =>
          call.op = "lock_front_panel" /\ MODULE_TYPE = MODULE_TYPE_0x88

(***************************************************************************)
(* C15, amended: the only write whose OSError is caught is the PANEL_LOCK  *)
(* write of lock_front_panel on module type 0x60 (called directly, by the  *)
(* constructor or by disconnect): lock_front_panel then returns False and  *)
(* the register keeps its value; every other operation fails when a write  *)
(* it attempted raised.  emission(on) writes 0 for off and 3 for on and    *)
(* fails with "cannot turn emission" when the write raises.  An operation  *)
(* that returned normally without a write that succeeded is                *)
(* lock_front_panel, on 0x88 with no write attempted or on 0x60 with the   *)
(* failed write.                                                           *)
(***************************************************************************)
C15_TransportErrors ==
    /\ (call.status = "ok" /\ FailedWrites # {}) =>
          /\ call.op \in {"lock_front_panel", "SuperK", "disconnect"}
          /\ MODULE_TYPE = MODULE_TYPE_0x60
          /\ \A i \in FailedWrites : trace[i].reg = "PANEL_LOCK"
          /\ call.op = "lock_front_panel" => call.ret = FALSE /\ Len(trace) = 1
    /\ EmissionTranslated
    /\ (call.op \in WritingOps /\ call.status = "ok" /\ AnyWrite \ FailedWrites = {}) =>
          /\ call.op = "lock_front_panel"
          /\ call.ret = FALSE
          /\ MODULE_TYPE = MODULE_TYPE_0x88 <=> trace = <<>>

C15_Witness ==
    /\ call.op = "lock_front_panel" /\ MODULE_TYPE = MODULE_TYPE_0x60
    /\ call.arg = FALSE
    /\ call.status = "ok" /\ call.ret = FALSE
    /\ Len(trace) = 1 /\ ~trace[1].ok
    /\ reg["PANEL_LOCK"] = 1

(***************************************************************************)
(* C16: a call of set_filter_position, set_grating_position,               *)
(* set_front_entrance_slit_width or set_front_exit_slit_width that returns *)
(* normally returns the requested integer int(value), which is also what   *)
(* the device answered to the read-back and what the device holds; a call  *)
(* whose read-back differs from the requested integer fails with an error. *)
(***************************************************************************)
MonoSetters ==
    {"set_filter_position", "set_grating_position",
     "set_front_entrance_slit_width", "set_front_exit_slit_width"}

MonoField(op) ==
    CASE op = "set_filter_position" -> "filter"
      [] op = "set_grating_position" -> "grating"
      [] op = "set_front_entrance_slit_width" -> "front_entrance_slit"
      [] OTHER -> "front_exit_slit"

C16_ReadBackEquality ==
    call.op \in MonoSetters =>
        LET requested == IntOfHalves(call.arg)
            last == trace[Len(trace)]
        IN  /\ call.status = "ok" =>
                  /\ Len(trace) = 2
                  /\ trace[1].cmd = "move" /\ trace[1].val = 2 * requested
                  /\ last.cmd = "read" /\ last.reg = MonoField(call.op)
                  /\ call.ret = requested
                  /\ call.ret = last.resp
                  /\ mono[MonoField(call.op)] = call.ret
            /\ (trace # <<>> /\ last.cmd = "read" /\ last.resp # requested) =>
                  call.status = "error" /\ call.ret = "None"

C16_Witness ==
    /\ call.op = "set_front_exit_slit_width"
    /\ call.arg = 2 * SLIT_MAX + 1
    /\ call.error = "AssertionError"
    /\ trace[2].resp = SLIT_MIN
    /\ mono.front_exit_slit = SLIT_MIN

(***************************************************************************)
(* C18: a call of set_operating_mode that fails because the answer to the  *)
(* MODE write-read differs from the mode requested leaves the emission     *)
(* off: the write of 0 to EMISSION is its only EMISSION write.  A call     *)
(* whose argument is no OperatingModes value or name fails with a          *)
(* ValueError before any command, and leaves the emission and the mode     *)
(* (and every register the call could write) as they were.                 *)
(***************************************************************************)
C18_FailedModeChange ==
    /\ []((call.op = "set_operating_mode" /\ call.error = "cannot_set_mode") =>
            /\ Len(trace) = 2
            /\ WritesTo("EMISSION") = {1} /\ trace[1].val = 0 /\ trace[1].ok
            /\ WritesTo("MODE") = {2} /\ trace[2].resp # trace[2].val
            /\ ~is_emission_on
            /\ get_operating_mode = trace[2].resp)
    /\ []((call.op = "set_operating_mode" /\ convert_to_enum(call.arg) = -1) =>
            call.status = "error" /\ call.error = "ValueError" /\ trace = <<>>)
    /\ [][(call'.op = "set_operating_mode" /\ convert_to_enum(call'.arg) = -1) =>
            \A r \in RegNames \ {"INTERLOCK"} : reg'[r] = reg[r]]_vars

C18_Witness ==
    /\ call.op = "set_operating_mode" /\ call.error = "cannot_set_mode"
    /\ call.arg = StrMode(<<"p", "o", "w", "e", "r", " ", "l", "o", "c", "k">>)
    /\ trace[2].val = POWER_LOCK /\ trace[2].resp = CONSTANT_POWER
    /\ ~is_emission_on
    /\ get_operating_mode = CONSTANT_POWER

(***************************************************************************)
(* C19: every move command that FW212CNEB.set_position sends carries the   *)
(* integer int(position) that passed the range check, a position within    *)
(* [1, max_position].  (The code sends position as it was given:           *)
(* set_position(2.5) sends 2.5.)                                           *)
(***************************************************************************)
C19_IntegerSent ==
    call.op = "set_position" =>
        \A i \in DOMAIN trace :
            trace[i].cmd = "move" =>
                /\ trace[i].val = 2 * IntOfHalves(call.arg)
                /\ IntOfHalves(call.arg) \in 1 .. fw212.max_position

(***************************************************************************)
(* C14: start_service ends the process with a non-zero exit status on      *)
(* every startup failure: no configuration path argument, a path that      *)
(* names no file, no alias argument, an alias without an equipment record, *)
(* an alias that is not handled, a constructor that raises, and a          *)
(* service.start that raises.  (After a service.start that raised the      *)
(* function prompts, disconnects and returns: the exit status is 0.)       *)
(***************************************************************************)
C14_StartupFailureExit ==
    service.phase = "exited" =>
        LET started == service.constructed /\ ~service.wait_fails
        IN  (\/ service.argc = 0
             \/ ~service.is_file
             \/ service.argc = 1
             \/ ~service.in_db
             \/ service.alias \notin {"superk", "mono-hrs", "nd-wheel"}
             \/ ~service.constructed
             \/ (started /\ service.start_raises)) => service.exit # 0

(***************************************************************************)
(* C20: whenever start_service constructed the wrapper, disconnect was     *)
(* called on it exactly once by the time start_service finished, whether   *)
(* service.start returned or raised or wait_for_server failed.  (Nothing   *)
(* disconnects the wrapper when wait_for_server raises.)                   *)
(***************************************************************************)
C20_DisconnectOnce ==
    (service.phase = "exited" /\ service.constructed) => service.disconnects = 1

====
